---------------------------- MODULE Spec2Model ----------------------------
(***************************************************************************)
(* A model of the achroma workspace: the achroma_icc crate (ICC profile    *)
(* data model: device attributes, signature enumerations, tagged records,  *)
(* array records, numeric primitives) and the achroma crate (colour-vision *)
(* taxonomy).                                                              *)
(*                                                                         *)
(* The crates are libraries of values and pure functions.  Each component  *)
(* has its own state variable and its own specification (SpecDev, SpecSig, *)
(* SpecRec, SpecArr, SpecNum, SpecCV): the variable holds the value the    *)
(* caller owns, or the record of the last call (its inputs and what it     *)
(* returned), and every public operation is one action.                    *)
(*                                                                         *)
(* Machine words wider than 31 bits are bit vectors: a function from the   *)
(* bit index (0 = least significant) to 0 or 1.                            *)
(***************************************************************************)
EXTENDS Integers, Sequences, FiniteSets, TLC

VARIABLES
    dev,    \* achroma_icc: the last DeviceAttributes constructor call
    sig,    \* achroma_icc: the last signature-enumeration call
    rec,    \* achroma_icc::tags: the tagged record the caller holds
    arr,    \* achroma_icc::tags::arrays: the array record the caller holds
    arrcall, \* achroma_icc::tags::arrays: the last call on an array
    num,    \* achroma_icc::numbers: the last numeric-primitive call
    summary, \* achroma: the ConeCellSummary the caller holds
    cv,     \* achroma: the last colour-vision conversion call
    prof,   \* achroma_icc: the profile container
    codec   \* achroma_icc::tags: the last record codec call

vars == <<dev, sig, rec, arr, arrcall, num, summary, cv, prof, codec>>

\* The value of a call-record variable before the call is made.  Each call
\* action is taken from this state: a run makes one call, with any inputs.
NoCall == [op |-> "none"]

(***************************************************************************)
(* Bit vectors.                                                            *)
(***************************************************************************)

\* Bit widths of the Rust integer types the crate uses.
U8Bits == 8
U16Bits == 16
U32Bits == 32
U64Bits == 64

Width(x) == Cardinality(DOMAIN x)

ZeroWord(w) == [i \in 0 .. (w - 1) |-> 0]

OnesWord(w) == [i \in 0 .. (w - 1) |-> 1]

\* The word of width w with only bit k set.
BitWord(w, k) == [i \in 0 .. (w - 1) |-> IF i = k THEN 1 ELSE 0]

\* Bitwise complement.
NotWord(x) == [i \in DOMAIN x |-> 1 - x[i]]

\* `x as uN` for an unsigned x no wider than N bits: zero extension.
ZeroExtend(x, w) == [i \in 0 .. (w - 1) |-> IF i < Width(x) THEN x[i] ELSE 0]

\* `x << n` for n below the width: the bits move up, zeros come in, the top
\* n bits fall off.
Shl(x, n) == [i \in DOMAIN x |-> IF i >= n THEN x[i - n] ELSE 0]

\* `x | y`.
BitOr(x, y) == [i \in DOMAIN x |-> IF x[i] = 1 \/ y[i] = 1 THEN 1 ELSE 0]

\* The words the calls are given: zero, all ones, every single bit, and
\* every word with a single bit clear.
SampleWords(w) ==
    {ZeroWord(w), OnesWord(w)}
        \cup {BitWord(w, k) : k \in 0 .. (w - 1)}
        \cup {NotWord(BitWord(w, k)) : k \in 0 .. (w - 1)}

(***************************************************************************)
(* DeviceAttributes (achroma_icc/src/lib.rs).                              *)
(***************************************************************************)

\* pub struct DeviceAttributes(u64)
DeviceAttributes(value) == [bits |-> value]

\* DeviceAttributes::new(value: u64)
DeviceAttributes_new(value) == DeviceAttributes(value)

\* impl From<u64> for DeviceAttributes
DeviceAttributes_from_u64(value) == DeviceAttributes(value)

\* A slip that shifts the high half by one bit too few.
Mutant_from_array(high, low) ==
    DeviceAttributes(BitOr(Shl(ZeroExtend(high, U64Bits), U32Bits - 1),
                           ZeroExtend(low, U64Bits)))

\* impl From<[u32; 2]> for DeviceAttributes: value[0] is high, value[1] low.
DeviceAttributes_from_array(high, low) ==
    LET combined_value ==
            BitOr(Shl(ZeroExtend(high, U64Bits), U32Bits),
                  ZeroExtend(low, U64Bits))
    IN  DeviceAttributes(combined_value)

\* The 64-bit word whose bits 32..63 are `high` and whose bits 0..31 are
\* `low`: what the caller passes as the raw 64-bit value.
Combine(high, low) ==
    [i \in 0 .. (U64Bits - 1) |-> IF i >= U32Bits THEN high[i - U32Bits] ELSE low[i]]

\* The variables of the other components.
DevOthers == <<sig, rec, arr, arrcall, num, summary, cv, prof, codec>>

DevNew ==
    /\ dev = NoCall
    /\ \E high \in SampleWords(U32Bits), low \in SampleWords(U32Bits) :
        dev' = [op |-> "new", high |-> high, low |-> low,
                out |-> DeviceAttributes_new(Combine(high, low))]
    /\ UNCHANGED DevOthers

DevFromU64 ==
    /\ dev = NoCall
    /\ \E high \in SampleWords(U32Bits), low \in SampleWords(U32Bits) :
        dev' = [op |-> "from_u64", high |-> high, low |-> low,
                out |-> DeviceAttributes_from_u64(Combine(high, low))]
    /\ UNCHANGED DevOthers

DevFromArray ==
    /\ dev = NoCall
    /\ \E high \in SampleWords(U32Bits), low \in SampleWords(U32Bits) :
        dev' = [op |-> "from_array", high |-> high, low |-> low,
                out |-> DeviceAttributes_from_array(high, low)]
    /\ UNCHANGED DevOthers

DevNext ==
    DevNew \/ DevFromU64 \/ DevFromArray

(***************************************************************************)
(* Strings.  A Rust &str is the sequence of its characters; its bytes are  *)
(* the characters' ASCII codes.                                            *)
(***************************************************************************)

\* The printable ASCII characters in code order, from the space (code 32)
\* to the tilde (code 126).  "grave" stands for the grave accent (code 96),
\* which a string of this language cannot hold.
Printable ==
    << " ", "!", "\"", "#", "$", "%", "&", "'", "(", ")", "*", "+", ",", "-", ".", "/",
       "0", "1", "2", "3", "4", "5", "6", "7", "8", "9", ":", ";", "<", "=", ">", "?",
       "@", "A", "B", "C", "D", "E", "F", "G", "H", "I", "J", "K", "L", "M", "N", "O",
       "P", "Q", "R", "S", "T", "U", "V", "W", "X", "Y", "Z", "[", "\\", "]", "^", "_",
       "grave", "a", "b", "c", "d", "e", "f", "g", "h", "i", "j", "k", "l", "m", "n", "o",
       "p", "q", "r", "s", "t", "u", "v", "w", "x", "y", "z", "{", "|", "}", "~" >>

\* The ASCII code of a printable character: Printable[1] has code 32.
Ascii(c) == 31 + (CHOOSE i \in 1 .. Len(Printable) : Printable[i] = c)

\* The printable character with code n.
Chr(n) == Printable[n - 31]

\* s.as_bytes()
Bytes(s) == [i \in 1 .. Len(s) |-> Ascii(s[i])]

\* u32::from_be_bytes, for four bytes of which the first is below 128.
FromBeBytes(b) ==
    ((b[1] * 256 + b[2]) * 256 + b[3]) * 256 + b[4]

\* u32::to_be_bytes read as characters.
ToBeChars(n) ==
    << Chr(n \div (256 * 256 * 256)),
       Chr((n \div (256 * 256)) % 256),
       Chr((n \div 256) % 256),
       Chr(n % 256) >>

(***************************************************************************)
(* Results.                                                                *)
(***************************************************************************)

\* The unit value ().
Unit == "()"

Ok(v) == [ok |-> TRUE, val |-> v]

Err(e) == [ok |-> FALSE, err |-> e]

(***************************************************************************)
(* Signature enumerations (achroma_icc/src/lib.rs, tags/mod.rs).           *)
(***************************************************************************)

ProfileClass_enum ==
    << [variant |-> "InputDeviceProfile", hex |-> \H73636E72],
       [variant |-> "DisplayDeviceProfile", hex |-> \H6D6E7472],
       [variant |-> "OutputDeviceProfile", hex |-> \H70727472],
       [variant |-> "DeviceLinkProfile", hex |-> \H6C696E6B],
       [variant |-> "ColorSpaceProfile", hex |-> \H73706163],
       [variant |-> "AbstractProfile", hex |-> \H61627374],
       [variant |-> "NamedColorProfile", hex |-> \H6E6D636C] >>

ProfileClass_arms ==
    << [s |-> <<"s", "c", "n", "r">>, variant |-> "InputDeviceProfile"],
       [s |-> <<"m", "n", "t", "r">>, variant |-> "DisplayDeviceProfile"],
       [s |-> <<"p", "r", "t", "r">>, variant |-> "OutputDeviceProfile"],
       [s |-> <<"l", "i", "n", "k">>, variant |-> "DeviceLinkProfile"],
       [s |-> <<"s", "p", "a", "c">>, variant |-> "ColorSpaceProfile"],
       [s |-> <<"a", "b", "s", "t">>, variant |-> "AbstractProfile"],
       [s |-> <<"n", "m", "c", "l">>, variant |-> "NamedColorProfile"] >>

ColorSpace_enum ==
    << [variant |-> "NCieXyz", hex |-> \H58595A20],
       [variant |-> "CieLab", hex |-> \H4C616220],
       [variant |-> "CieLuv", hex |-> \H4C757620],
       [variant |-> "YcbCr", hex |-> \H59436272],
       [variant |-> "CieYxy", hex |-> \H59787920],
       [variant |-> "Rgb", hex |-> \H52474220],
       [variant |-> "Gray", hex |-> \H47524159],
       [variant |-> "Hsv", hex |-> \H48535620],
       [variant |-> "Hls", hex |-> \H484C5320],
       [variant |-> "Cmyk", hex |-> \H434D594B],
       [variant |-> "Cmy", hex |-> \H434D5920],
       [variant |-> "Color2", hex |-> \H32434C52],
       [variant |-> "Color3", hex |-> \H33434C52],
       [variant |-> "Color4", hex |-> \H34434C52],
       [variant |-> "Color5", hex |-> \H35434C52],
       [variant |-> "Color6", hex |-> \H36434C52],
       [variant |-> "Color7", hex |-> \H37434C52],
       [variant |-> "Color8", hex |-> \H38434C52],
       [variant |-> "Color9", hex |-> \H39434C52],
       [variant |-> "Color10", hex |-> \H41434C52],
       [variant |-> "Color11", hex |-> \H42434C52],
       [variant |-> "Color12", hex |-> \H43434C52],
       [variant |-> "Color13", hex |-> \H44434C52],
       [variant |-> "Color14", hex |-> \H45434C52],
       [variant |-> "Color15", hex |-> \H46434C52] >>

ColorSpace_arms ==
    << [s |-> <<"X", "Y", "Z", " ">>, variant |-> "NCieXyz"],
       [s |-> <<"L", "a", "b", " ">>, variant |-> "CieLab"],
       [s |-> <<"L", "u", "v", " ">>, variant |-> "CieLuv"],
       [s |-> <<"Y", "C", "b", "r">>, variant |-> "YcbCr"],
       [s |-> <<"Y", "x", "y", " ">>, variant |-> "CieYxy"],
       [s |-> <<"R", "G", "B", " ">>, variant |-> "Rgb"],
       [s |-> <<"G", "R", "A", "Y">>, variant |-> "Gray"],
       [s |-> <<"H", "S", "V", " ">>, variant |-> "Hsv"],
       [s |-> <<"H", "L", "S", " ">>, variant |-> "Hls"],
       [s |-> <<"C", "M", "Y", "K">>, variant |-> "Cmyk"],
       [s |-> <<"C", "M", "Y", " ">>, variant |-> "Cmy"],
       [s |-> <<"2", "C", "L", "R">>, variant |-> "Color2"],
       [s |-> <<"3", "C", "L", "R">>, variant |-> "Color3"],
       [s |-> <<"4", "C", "L", "R">>, variant |-> "Color4"],
       [s |-> <<"5", "C", "L", "R">>, variant |-> "Color5"],
       [s |-> <<"6", "C", "L", "R">>, variant |-> "Color6"],
       [s |-> <<"7", "C", "L", "R">>, variant |-> "Color7"],
       [s |-> <<"8", "C", "L", "R">>, variant |-> "Color8"],
       [s |-> <<"9", "C", "L", "R">>, variant |-> "Color9"],
       [s |-> <<"A", "C", "L", "R">>, variant |-> "Color10"],
       [s |-> <<"B", "C", "L", "R">>, variant |-> "Color11"],
       [s |-> <<"C", "C", "L", "R">>, variant |-> "Color12"],
       [s |-> <<"D", "C", "L", "R">>, variant |-> "Color13"],
       [s |-> <<"E", "C", "L", "R">>, variant |-> "Color14"],
       [s |-> <<"F", "C", "L", "R">>, variant |-> "Color15"] >>

ColorimetricIntentImageStateTag_rows ==
    << [variant |-> "SceneColorimetryEstimates", hex |-> \H73636565, s |-> <<"s", "c", "e", "n", "e">>],
       [variant |-> "SceneAppearanceEstimates", hex |-> \H73617065, s |-> <<"s", "a", "p", "e">>],
       [variant |-> "FocalPlaneColorimetryEstimates", hex |-> \H66706565, s |-> <<"f", "p", "c", "e">>],
       [variant |-> "ReflectionHardcopyOriginalColorimetry", hex |-> \H72686F63, s |-> <<"r", "h", "o", "c">>],
       [variant |-> "ReflectionPrintOutputColorimetry", hex |-> \H7269706F, s |-> <<"r", "p", "o", "c">>] >>

TechnologySignature_rows ==
    << [variant |-> "FilmScanner", hex |-> \H6673636E, s |-> <<"f", "s", "c", "n">>],
       [variant |-> "DigitalCamera", hex |-> \H6463616D, s |-> <<"d", "c", "a", "m">>],
       [variant |-> "ReflectiveScanner", hex |-> \H7273636E, s |-> <<"r", "s", "c", "n">>],
       [variant |-> "InkJetPrinter", hex |-> \H696A6574, s |-> <<"i", "j", "e", "t">>],
       [variant |-> "ThermalWaxPrinter", hex |-> \H74776178, s |-> <<"t", "w", "a", "x">>],
       [variant |-> "ElectrophotographicPrinter", hex |-> \H6570686F, s |-> <<"e", "p", "h", "o">>],
       [variant |-> "ElectrostaticPrinter", hex |-> \H65737461, s |-> <<"e", "s", "t", "a">>],
       [variant |-> "DyeSublimationPrinter", hex |-> \H64737562, s |-> <<"d", "s", "u", "b">>],
       [variant |-> "PhotographicPaperPrinter", hex |-> \H70687072, s |-> <<"r", "p", "h", "o">>],
       [variant |-> "FilmWriter", hex |-> \H6670726E, s |-> <<"f", "p", "r", "n">>],
       [variant |-> "VideoMonitor", hex |-> \H7669646D, s |-> <<"v", "i", "d", "m">>],
       [variant |-> "VideoCamera", hex |-> \H76696463, s |-> <<"v", "i", "d", "c">>],
       [variant |-> "ProjectionTelevision", hex |-> \H706A7476, s |-> <<"p", "j", "t", "v">>],
       [variant |-> "CRTDisplay", hex |-> \H43525420, s |-> <<"C", "R", "T", " ">>],
       [variant |-> "PMDisplay", hex |-> \H504D4420, s |-> <<"P", "M", "D", " ">>],
       [variant |-> "AMDisplay", hex |-> \H414D4420, s |-> <<"A", "M", "D", " ">>],
       [variant |-> "OLEDDisplay", hex |-> \H4F4C4544, s |-> <<"O", "L", "E", "D">>],
       [variant |-> "PhotoCD", hex |-> \H4B504344, s |-> <<"K", "P", "C", "D">>],
       [variant |-> "PhotoImageSetter", hex |-> \H696D6773, s |-> <<"i", "m", "g", "s">>],
       [variant |-> "Gravure", hex |-> \H67726176, s |-> <<"g", "r", "a", "v">>],
       [variant |-> "OffsetLithography", hex |-> \H6F666673, s |-> <<"o", "f", "f", "s">>],
       [variant |-> "SilkScreen", hex |-> \H73696C6B, s |-> <<"s", "i", "l", "k">>],
       [variant |-> "Flexography", hex |-> \H666C6578, s |-> <<"f", "l", "e", "x">>],
       [variant |-> "MotionPictureFilmScanner", hex |-> \H6D706673, s |-> <<"m", "p", "f", "s">>],
       [variant |-> "MotionPictureFilmRecorder", hex |-> \H6D706672, s |-> <<"m", "p", "f", "r">>],
       [variant |-> "DigitalMotionPictureCamera", hex |-> \H646D7063, s |-> <<"d", "m", "p", "c">>],
       [variant |-> "DigitalCinemaProjector", hex |-> \H64636D70, s |-> <<"d", "c", "m", "p">>] >>

CurveMeasurement_rows ==
    << [variant |-> "StatusA", hex |-> \H53746141, s |-> <<"S", "t", "a", "A">>],
       [variant |-> "StatusE", hex |-> \H53746145, s |-> <<"S", "t", "a", "E">>],
       [variant |-> "StatusI", hex |-> \H53746149, s |-> <<"S", "t", "a", "I">>],
       [variant |-> "StatusT", hex |-> \H53746154, s |-> <<"S", "t", "a", "T">>],
       [variant |-> "StatusM", hex |-> \H5374614D, s |-> <<"S", "t", "a", "M">>],
       [variant |-> "DinEPolarFilter", hex |-> \H444E2020, s |-> <<"D", "n", " ", " ">>],
       [variant |-> "DinENoPolarFilter", hex |-> \H444E2050, s |-> <<"D", "n", " ", "P">>],
       [variant |-> "DinIPolarFilter", hex |-> \H444E4E20, s |-> <<"D", "N", "N", " ">>],
       [variant |-> "DinINoPolarFilter", hex |-> \H444E4E50, s |-> <<"D", "N", "N", "P">>] >>

SignatureEnums ==
    {"ProfileClass", "ColorSpace", "ColorimetricIntentImageStateTag",
     "TechnologySignature", "CurveMeasurement"}

\* impl_enum!, first half: `pub enum $e { $($variant = $hex),+ }`.
impl_enum_enum(rows) ==
    [i \in 1 .. Len(rows) |-> [variant |-> rows[i].variant, hex |-> rows[i].hex]]

\* impl_enum!, second half: the arms `$($s => Ok(Self::$variant),)+`.
impl_enum_arms(rows) ==
    [i \in 1 .. Len(rows) |-> [s |-> rows[i].s, variant |-> rows[i].variant]]

\* The enum declaration of each enumeration: variant and discriminant.
EnumDecl(e) ==
    CASE e = "ProfileClass" -> ProfileClass_enum
      [] e = "ColorSpace" -> ColorSpace_enum
      [] e = "ColorimetricIntentImageStateTag" ->
            impl_enum_enum(ColorimetricIntentImageStateTag_rows)
      [] e = "TechnologySignature" -> impl_enum_enum(TechnologySignature_rows)
      [] e = "CurveMeasurement" -> impl_enum_enum(CurveMeasurement_rows)

\* A copy-and-paste slip: the second arm repeats the string of the first arm.
Mutant_Arms(e) ==
    LET a == CASE e = "ProfileClass" -> ProfileClass_arms
               [] e = "ColorSpace" -> ColorSpace_arms
               [] e = "ColorimetricIntentImageStateTag" ->
                     impl_enum_arms(ColorimetricIntentImageStateTag_rows)
               [] e = "TechnologySignature" ->
                     impl_enum_arms(TechnologySignature_rows)
               [] e = "CurveMeasurement" -> impl_enum_arms(CurveMeasurement_rows)
    IN  [a EXCEPT ![2].s = a[1].s]

\* The match arms of each enumeration's from_str, in source order.
Arms(e) ==
    CASE e = "ProfileClass" -> ProfileClass_arms
      [] e = "ColorSpace" -> ColorSpace_arms
      [] e = "ColorimetricIntentImageStateTag" ->
            impl_enum_arms(ColorimetricIntentImageStateTag_rows)
      [] e = "TechnologySignature" -> impl_enum_arms(TechnologySignature_rows)
      [] e = "CurveMeasurement" -> impl_enum_arms(CurveMeasurement_rows)

Variants(e) == {EnumDecl(e)[i].variant : i \in 1 .. Len(EnumDecl(e))}

\* `v as u32`: the discriminant the enum declaration gives the variant.
Discriminant(e, v) ==
    LET d == EnumDecl(e)
    IN  d[CHOOSE i \in 1 .. Len(d) : d[i].variant = v].hex

\* A slip that adds a catch-all arm returning the first variant.
Mutant_from_str(e, s) ==
    LET a == Arms(e)
        hits == {i \in 1 .. Len(a) : a[i].s = s}
    IN  IF hits = {} THEN Ok(a[1].variant)
        ELSE Ok(a[CHOOSE i \in hits : \A j \in hits : i <= j].variant)

\* <$e as FromStr>::from_str: the first arm whose string equals s, else the
\* wildcard arm `_ => Err(())`.
from_str(e, s) ==
    LET a == Arms(e)
        hits == {i \in 1 .. Len(a) : a[i].s = s}
    IN  IF hits = {} THEN Err(Unit)
        ELSE Ok(a[CHOOSE i \in hits : \A j \in hits : i <= j].variant)

\* The strings of the arms of e.
ArmStrings(e) == {Arms(e)[i].s : i \in 1 .. Len(Arms(e))}

\* The strings from_str is given: every arm string of every
\* enumeration (for another enumeration, a well-formed signature outside its
\* table), every discriminant written as its four big-endian characters, and
\* strings that are shorter, longer, empty or differ in case.
SampleStrings ==
    UNION {ArmStrings(e) : e \in SignatureEnums}
        \cup UNION {{ToBeChars(Discriminant(e, v)) : v \in Variants(e)} :
                        e \in SignatureEnums}
        \cup { <<>>, <<"s", "c", "n">>, <<"s", "c", "n", "r", " ">>,
               <<"S", "C", "N", "R">>, <<"x", "y", "z", " ">>,
               <<"s", "c", "o", "e">>, <<"A", "B", "C", "D">>,
               <<"d", "e", "s", "c">> }

\* The variables of the other components.
SigOthers == <<dev, rec, arr, arrcall, num, summary, cv, prof, codec>>

SigFromStr ==
    /\ sig = NoCall
    /\ \E e \in SignatureEnums, s \in SampleStrings :
        sig' = [op |-> "from_str", enum |-> e, input |-> s, out |-> from_str(e, s)]
    /\ UNCHANGED SigOthers

SigAsU32 ==
    /\ sig = NoCall
    /\ \E e \in SignatureEnums :
        \E v \in Variants(e) :
            sig' = [op |-> "as_u32", enum |-> e, input |-> v,
                    out |-> Discriminant(e, v)]
    /\ UNCHANGED SigOthers

SigNext ==
    SigFromStr \/ SigAsU32

(***************************************************************************)
(* Tagged records with a count field and a variable-length sequence        *)
(* (achroma_icc/src/tags/mod.rs).  The structs have no constructor and no  *)
(* method: a record is written as a struct literal inside the crate, and   *)
(* its count and its sequence are public fields.  Of each record the model *)
(* keeps the count field and the sequence it counts:                       *)
(*   ColorantOrder              colorants_count   colorants                *)
(*   FormulaCurveSegment        num_params        params                   *)
(*   SampledCurveSegment        count_entries     curve_entries            *)
(*   ProfileSequenceIdentifier  count             positions                *)
(***************************************************************************)

\* The longest sequence, the largest count and the largest element of a
\* record or an array.
MaxLen == 3
MaxCount == 4
MaxElem == 2

CountedRecords ==
    {"ColorantOrder", "FormulaCurveSegment", "SampledCurveSegment",
     "ProfileSequenceIdentifier"}

Elems == 0 .. MaxElem

\* The sequences over Elems of length at most n.
SeqsUpTo(n) == UNION {[1 .. k -> Elems] : k \in 0 .. n}

NoRecord == [type |-> "none"]

\* A struct literal: every field is given on its own.
CountedRecord(type, count, seq) == [type |-> type, count |-> count, seq |-> seq]

\* The variables of the other components.
RecOthers == <<dev, sig, arr, arrcall, num, summary, cv, prof, codec>>

\* let r = T { count, seq, .. };
RecConstruct ==
    /\ rec = NoRecord
    /\ \E type \in CountedRecords, count \in 0 .. MaxCount, seq \in SeqsUpTo(MaxLen) :
           rec' = CountedRecord(type, count, seq)
    /\ UNCHANGED RecOthers

\* r.count = n;
RecSetCount ==
    /\ rec # NoRecord
    /\ \E n \in 0 .. MaxCount : rec' = [rec EXCEPT !.count = n]
    /\ UNCHANGED RecOthers

\* r.seq.push(x);
RecPush ==
    /\ rec # NoRecord
    /\ Len(rec.seq) < MaxLen
    /\ \E x \in Elems : rec' = [rec EXCEPT !.seq = Append(@, x)]
    /\ UNCHANGED RecOthers

\* r.seq.pop();
RecPop ==
    /\ rec # NoRecord
    /\ rec' = [rec EXCEPT !.seq = IF @ = <<>> THEN @ ELSE SubSeq(@, 1, Len(@) - 1)]
    /\ UNCHANGED RecOthers

RecNext ==
    RecConstruct \/ RecSetCount \/ RecPush \/ RecPop

(***************************************************************************)
(* Array records (achroma_icc/src/tags/arrays.rs).                         *)
(***************************************************************************)

\* The impl_array! invocations: ($a, $a_ty, $sig, $reserved).
impl_array_rows ==
    << [a |-> "S15Fixed16Array", a_ty |-> "S15Fixed16", sig |-> \H73663332, reserved |-> 0],
       [a |-> "U16Fixed16Array", a_ty |-> "U16Fixed16", sig |-> \H75663332, reserved |-> 0],
       [a |-> "U16Array", a_ty |-> "u16", sig |-> \H75693136, reserved |-> 0],
       [a |-> "U32Array", a_ty |-> "u32", sig |-> \H75693332, reserved |-> 0],
       [a |-> "U64Array", a_ty |-> "u32", sig |-> \H75693634, reserved |-> 0],
       [a |-> "U8Array", a_ty |-> "u8", sig |-> \H75693038, reserved |-> 0] >>

ArrayTypes == {impl_array_rows[i].a : i \in 1 .. Len(impl_array_rows)}

ArrayRow(a) ==
    impl_array_rows[CHOOSE i \in 1 .. Len(impl_array_rows) : impl_array_rows[i].a = a]

NoArray == [a |-> "none"]

\* A copy-and-paste slip: every array type gets the signature of the first.
Mutant_array_new(a, values) ==
    [a |-> a,
     type_signature |-> impl_array_rows[1].sig,
     reserved_1 |-> ArrayRow(a).reserved,
     values |-> values]

\* $a::new(values)
impl_array_new(a, values) ==
    [a |-> a,
     type_signature |-> ArrayRow(a).sig,
     reserved_1 |-> ArrayRow(a).reserved,
     values |-> values]

\* impl From<Vec<$a_ty>> for $a
impl_array_from_vec(a, value) == impl_array_new(a, value)

\* impl Default for $a; Vec::default() is the empty vector.
impl_array_default(a) == impl_array_new(a, <<>>)

\* A slip that loses the last element.
Mutant_array_into_vec(value) ==
    SubSeq(value.values, 1, Len(value.values) - 1)

\* impl From<$a> for Vec<$a_ty>
impl_array_into_vec(value) == value.values

\* #[derive(PartialEq)] on the array struct: field by field.
impl_array_eq(x, y) ==
    /\ x.type_signature = y.type_signature
    /\ x.reserved_1 = y.reserved_1
    /\ x.values = y.values

\* The bytes of a usize on the targets a build can be for (16, 32 and 64
\* bit pointers); a Vec is a pointer, a capacity and a length.
PointerBytes == {2, 4, 8}

size_of_Vec(target) == 3 * target

\* $a::bytes
impl_array_bytes(self, target) ==
    8 + (Len(self.values) * size_of_Vec(target))

\* The variables of the other components.
ArrOthers == <<dev, sig, rec, num, summary, cv, prof, codec>>

ArrNew ==
    /\ arrcall = NoCall
    /\ arr = NoArray
    /\ \E a \in ArrayTypes, values \in SeqsUpTo(MaxLen) :
           arr' = impl_array_new(a, values)
    /\ UNCHANGED <<arrcall, ArrOthers>>

ArrFromVec ==
    /\ arrcall = NoCall
    /\ arr = NoArray
    /\ \E a \in ArrayTypes, value \in SeqsUpTo(MaxLen) :
           arr' = impl_array_from_vec(a, value)
    /\ UNCHANGED <<arrcall, ArrOthers>>

ArrDefault ==
    /\ arrcall = NoCall
    /\ arr = NoArray
    /\ \E a \in ArrayTypes : arr' = impl_array_default(a)
    /\ UNCHANGED <<arrcall, ArrOthers>>

\* a.values.push(x): `values` is the one public field.
ArrPush ==
    /\ arrcall = NoCall
    /\ arr # NoArray
    /\ Len(arr.values) < MaxLen
    /\ \E x \in Elems : arr' = [arr EXCEPT !.values = Append(@, x)]
    /\ UNCHANGED <<arrcall, ArrOthers>>

\* a.values = v;
ArrSetValues ==
    /\ arrcall = NoCall
    /\ arr # NoArray
    /\ \E v \in SeqsUpTo(MaxLen) : arr' = [arr EXCEPT !.values = v]
    /\ UNCHANGED <<arrcall, ArrOthers>>

\* arr.bytes() on the array held, in a build for one of the targets.
ArrBytes ==
    /\ arrcall = NoCall
    /\ arr # NoArray
    /\ \E target \in PointerBytes :
           arrcall' = [op |-> "bytes", self |-> arr, target |-> target,
                       out |-> impl_array_bytes(arr, target)]
    /\ UNCHANGED <<arr, ArrOthers>>

\* Vec::from($a::from(xs.clone())), and $a::from(xs.clone()) compared with
\* $a::new(xs.clone()) and with a second $a::from(xs.clone()).
ArrRoundTrip ==
    /\ arrcall = NoCall
    /\ arr = NoArray
    /\ \E a \in ArrayTypes, xs \in SeqsUpTo(MaxLen) :
           LET from == impl_array_from_vec(a, xs)
           IN  arrcall' = [op |-> "round_trip", a |-> a, input |-> xs,
                           out |-> impl_array_into_vec(from),
                           eq_new |-> impl_array_eq(from, impl_array_new(a, xs)),
                           eq_from |-> impl_array_eq(from, impl_array_from_vec(a, xs))]
    /\ UNCHANGED <<arr, ArrOthers>>

ArrNext ==
    ArrNew \/ ArrFromVec \/ ArrDefault \/ ArrPush \/ ArrSetValues
    \/ ArrBytes \/ ArrRoundTrip

(***************************************************************************)
(* Numeric primitives (achroma_icc/src/numbers/mod.rs).                    *)
(***************************************************************************)

\* The impl_num_primitive! invocations the properties are about: ($n, $n_ty).
\* A scalar $n_ty is given by its width in bits, an array [T; len] by its
\* length, the width of one element and, where the elements are themselves
\* a primitive, that primitive's name.
impl_num_primitive_rows ==
    << [n |-> "S15Fixed16", bits |-> U32Bits, len |-> 0, elem |-> "i32"],
       [n |-> "U16Fixed16", bits |-> U32Bits, len |-> 0, elem |-> "u32"],
       [n |-> "U1Fixed15", bits |-> U16Bits, len |-> 0, elem |-> "u16"],
       [n |-> "U8Fixed8", bits |-> U16Bits, len |-> 0, elem |-> "u16"],
       [n |-> "XYZNum", bits |-> U32Bits, len |-> 3, elem |-> "S15Fixed16"],
       [n |-> "PositionNum", bits |-> U32Bits, len |-> 2, elem |-> "u32"],
       [n |-> "DateTimeNum", bits |-> U16Bits, len |-> 8, elem |-> "u16"] >>

NumPrimitives == {impl_num_primitive_rows[i].n : i \in 1 .. Len(impl_num_primitive_rows)}

NumRow(n) ==
    impl_num_primitive_rows[
        CHOOSE i \in 1 .. Len(impl_num_primitive_rows) : impl_num_primitive_rows[i].n = n]

\* A slip that clears the sign bit of the stored value.
Mutant_num_new(n, value) ==
    [ty |-> n,
     val |-> IF NumRow(n).len = 0
             THEN [value EXCEPT ![NumRow(n).bits - 1] = 0]
             ELSE value]

\* $n::new(value): Self(value)
impl_num_primitive_new(n, value) == [ty |-> n, val |-> value]

\* $n::get(&self): self.0
impl_num_primitive_get(self) == self.val

\* impl From<$n_ty> for $n: Self(value)
impl_num_primitive_from(n, value) == [ty |-> n, val |-> value]

\* The few words the elements of an array are drawn from.
CornerWords(w) == {ZeroWord(w), OnesWord(w), BitWord(w, 0), BitWord(w, w - 1)}

\* One element of the array type of row r holding the word x.
NumElem(r, x) ==
    IF r.elem = "S15Fixed16" THEN impl_num_primitive_new("S15Fixed16", x) ELSE x

\* The raw values of $n_ty the calls are given: for a scalar, SampleWords;
\* for an array, every array that holds one corner word at one place and
\* one corner word at all the others.
SampleRaw(n) ==
    LET r == NumRow(n)
    IN  IF r.len = 0 THEN SampleWords(r.bits)
        ELSE {[i \in 1 .. r.len |-> NumElem(r, IF i = k THEN x ELSE y)] :
                  k \in 1 .. r.len, x \in CornerWords(r.bits), y \in CornerWords(r.bits)}

\* The variables of the other components.
NumOthers == <<dev, sig, rec, arr, arrcall, summary, cv, prof, codec>>

\* let t = T::new(x); t.get()
NumNewGet ==
    /\ num = NoCall
    /\ \E n \in NumPrimitives :
           \E x \in SampleRaw(n) :
               num' = [op |-> "new", ty |-> n, input |-> x,
                       val |-> impl_num_primitive_new(n, x),
                       got |-> impl_num_primitive_get(impl_num_primitive_new(n, x))]
    /\ UNCHANGED NumOthers

\* T::from(x)
NumFrom ==
    /\ num = NoCall
    /\ \E n \in NumPrimitives :
           \E x \in SampleRaw(n) :
               num' = [op |-> "from", ty |-> n, input |-> x,
                       val |-> impl_num_primitive_from(n, x)]
    /\ UNCHANGED NumOthers

(***************************************************************************)
(* Fixed-point parts.  The crate declares the trait FixedInt<T>            *)
(* (from_parts, integer_part, fractional_part) and implements it for no    *)
(* type: the macro that would is commented out.  The three operations are  *)
(* modelled from the written specification of the crate: N integer bits    *)
(* above M fractional bits in one word, a fractional part wider than M     *)
(* bits keeping its low-order bits.                                        *)
(***************************************************************************)

\* The fixed-point types: whether the integer part is signed, and the
\* widths of the integer and of the fractional part.
FixedRows ==
    << [n |-> "S15Fixed16", signed |-> TRUE, int_bits |-> 16, frac_bits |-> 16],
       [n |-> "U16Fixed16", signed |-> FALSE, int_bits |-> 16, frac_bits |-> 16],
       [n |-> "U1Fixed15", signed |-> FALSE, int_bits |-> 1, frac_bits |-> 15],
       [n |-> "U8Fixed8", signed |-> FALSE, int_bits |-> 8, frac_bits |-> 8] >>

FixedTypes == {FixedRows[i].n : i \in 1 .. Len(FixedRows)}

FixedRow(n) == FixedRows[CHOOSE i \in 1 .. Len(FixedRows) : FixedRows[i].n = n]

\* Bit k of the integer x in two's complement.
BitOf(x, k) == (x \div (2 ^ k)) % 2

\* The unsigned value of the n bits of word x from bit lo upwards.
RECURSIVE FieldValue(_, _, _)
FieldValue(x, lo, n) ==
    IF n = 0 THEN 0 ELSE x[lo] + 2 * FieldValue(x, lo + 1, n - 1)

\* FixedInt::from_parts(integer, fractional)
FixedInt_from_parts(n, integer, fractional) ==
    LET r == FixedRow(n)
    IN  impl_num_primitive_new(n,
            [k \in 0 .. (r.int_bits + r.frac_bits - 1) |->
                IF k < r.frac_bits THEN BitOf(fractional, k)
                ELSE BitOf(integer, k - r.frac_bits)])

\* FixedInt::integer_part(&self)
FixedInt_integer_part(self) ==
    LET r == FixedRow(self.ty)
        u == FieldValue(self.val, r.frac_bits, r.int_bits)
    IN  IF r.signed /\ self.val[r.int_bits + r.frac_bits - 1] = 1
        THEN u - 2 ^ r.int_bits
        ELSE u

\* The mask of the commented-out draft for U1Fixed15 and U8Fixed8, 0xFF:
\* eight fractional bits, whatever the type.
Mutant_fractional_part(self) == FieldValue(self.val, 0, U8Bits)

\* FixedInt::fractional_part(&self)
FixedInt_fractional_part(self) ==
    FieldValue(self.val, 0, FixedRow(self.ty).frac_bits)

\* The integer parts from_parts is given: the least, the greatest, their
\* neighbours, and -1, 0, 1 where the type has them.
IntParts(n) ==
    LET r == FixedRow(n)
        lo == IF r.signed THEN 0 - 2 ^ (r.int_bits - 1) ELSE 0
        hi == IF r.signed THEN 2 ^ (r.int_bits - 1) - 1 ELSE 2 ^ r.int_bits - 1
    IN  {x \in {lo, lo + 1, 0 - 1, 0, 1, hi - 1, hi} : lo <= x /\ x <= hi}

\* The fractional parts from_parts is given: 0, 1, one half, the greatest
\* and its neighbour, and two that do not fit the fractional width.
FracParts(n) ==
    LET m == FixedRow(n).frac_bits
    IN  {0, 1, 2 ^ (m - 1), 2 ^ m - 2, 2 ^ m - 1, 2 ^ m, 2 ^ m + 1}

FitsFraction(n, f) == 0 <= f /\ f < 2 ^ FixedRow(n).frac_bits

\* let t = T::from_parts(i, f); (t.integer_part(), t.fractional_part())
NumFromParts ==
    /\ num = NoCall
    /\ \E n \in FixedTypes :
           \E i \in IntParts(n), f \in FracParts(n) :
               LET t == FixedInt_from_parts(n, i, f)
               IN  num' = [op |-> "from_parts", ty |-> n, integer |-> i,
                           fractional |-> f, val |-> t,
                           integer_part |-> FixedInt_integer_part(t),
                           fractional_part |-> FixedInt_fractional_part(t)]
    /\ UNCHANGED NumOthers

NumNext ==
    NumNewGet \/ NumFrom \/ NumFromParts

(***************************************************************************)
(* Colour vision (achroma/src/lib.rs).                                     *)
(***************************************************************************)

\* enum ConeCellCond
ConeCellCond == {"Normal", "Anomalous", "Missing"}

\* ConeCellSummary::new(l, m, s)
ConeCellSummary_new(l, m, s) == [l |-> l, m |-> m, s |-> s]

\* Every ConeCellSummary: 27 values.
ConeCellSummaries ==
    {ConeCellSummary_new(l, m, s) : l \in ConeCellCond, m \in ConeCellCond, s \in ConeCellCond}

\* The associated constants of ConeCellSummary.
NORMAL == ConeCellSummary_new("Normal", "Normal", "Normal")
PROTANOMALY == ConeCellSummary_new("Anomalous", "Normal", "Normal")
PROTANOPIA == ConeCellSummary_new("Missing", "Normal", "Normal")
DEUTERANOMALY == ConeCellSummary_new("Normal", "Anomalous", "Normal")
DEUTERANOPIA == ConeCellSummary_new("Normal", "Missing", "Normal")
TRITANOMALY == ConeCellSummary_new("Normal", "Normal", "Anomalous")
TRITANOPIA == ConeCellSummary_new("Normal", "Normal", "Missing")
ACHROMATOMALY == ConeCellSummary_new("Missing", "Missing", "Normal")
ACHROMATOPSIA == ConeCellSummary_new("Missing", "Missing", "Missing")

\* impl Default for ConeCellSummary; ConeCellCond::default() is Normal.
ConeCellSummary_default == ConeCellSummary_new("Normal", "Normal", "Normal")

\* enum ColorVision
ColorVision ==
    {"Normal", "Protanomaly", "Protanopia", "Deuteranomaly", "Deuteranopia",
     "Tritanomaly", "Tritanopia", "Achromatomaly", "Achromatopsia"}

\* A copy-and-paste slip: Achromatomaly gets the summary of Achromatopsia.
Mutant_summary_from(vision) ==
    CASE vision = "Normal" -> NORMAL
      [] vision = "Protanomaly" -> PROTANOMALY
      [] vision = "Protanopia" -> PROTANOPIA
      [] vision = "Deuteranomaly" -> DEUTERANOMALY
      [] vision = "Deuteranopia" -> DEUTERANOPIA
      [] vision = "Tritanomaly" -> TRITANOMALY
      [] vision = "Tritanopia" -> TRITANOPIA
      [] vision = "Achromatomaly" -> ACHROMATOPSIA
      [] vision = "Achromatopsia" -> ACHROMATOPSIA

\* impl From<ColorVision> for ConeCellSummary
ConeCellSummary_from(vision) ==
    CASE vision = "Normal" -> NORMAL
      [] vision = "Protanomaly" -> PROTANOMALY
      [] vision = "Protanopia" -> PROTANOPIA
      [] vision = "Deuteranomaly" -> DEUTERANOMALY
      [] vision = "Deuteranopia" -> DEUTERANOPIA
      [] vision = "Tritanomaly" -> TRITANOMALY
      [] vision = "Tritanopia" -> TRITANOPIA
      [] vision = "Achromatomaly" -> ACHROMATOMALY
      [] vision = "Achromatopsia" -> ACHROMATOPSIA

\* A slip that matches on the long cone cell alone in the Protanopia arm, so
\* that every summary with a missing long cone cell that no earlier arm
\* takes is Protanopia.
Mutant_vision_try_from(s) ==
    IF s = NORMAL THEN Ok("Normal")
    ELSE IF s = PROTANOMALY THEN Ok("Protanomaly")
    ELSE IF s.l = "Missing" THEN Ok("Protanopia")
    ELSE IF s = DEUTERANOMALY THEN Ok("Deuteranomaly")
    ELSE IF s = DEUTERANOPIA THEN Ok("Deuteranopia")
    ELSE IF s = TRITANOMALY THEN Ok("Tritanomaly")
    ELSE IF s = TRITANOPIA THEN Ok("Tritanopia")
    ELSE Err(Unit)

\* impl TryFrom<ConeCellSummary> for ColorVision: the arms in source order.
ColorVision_try_from(s) ==
    IF s = NORMAL THEN Ok("Normal")
    ELSE IF s = PROTANOMALY THEN Ok("Protanomaly")
    ELSE IF s = PROTANOPIA THEN Ok("Protanopia")
    ELSE IF s = DEUTERANOMALY THEN Ok("Deuteranomaly")
    ELSE IF s = DEUTERANOPIA THEN Ok("Deuteranopia")
    ELSE IF s = TRITANOMALY THEN Ok("Tritanomaly")
    ELSE IF s = TRITANOPIA THEN Ok("Tritanopia")
    ELSE IF s = ACHROMATOMALY THEN Ok("Achromatomaly")
    ELSE IF s = ACHROMATOPSIA THEN Ok("Achromatopsia")
    ELSE Err(Unit)

\* enum ConeCell
ConeCell == {"Long", "Medium", "Short"}

\* A char: a printable ASCII character, or one of a few others named by
\* their code points: NUL, the Latin small long s and the Kelvin sign
\* (whose upper and lower cases are S and k), and the last code point.
Chars ==
    {Printable[i] : i \in 1 .. Len(Printable)} \cup
    {"U+0000", "U+017F", "U+212A", "U+10FFFF"}

\* A slip that leaves the upper-case letters out of the arms.
Mutant_cone_try_from(c) ==
    IF c \in {"l", "r"} THEN Ok("Long")
    ELSE IF c \in {"m", "g"} THEN Ok("Medium")
    ELSE IF c \in {"s", "b"} THEN Ok("Short")
    ELSE Err(Unit)

\* impl TryFrom<char> for ConeCell: the arms in source order.
ConeCell_try_from(c) ==
    IF c \in {"l", "L", "r", "R"} THEN Ok("Long")
    ELSE IF c \in {"m", "M", "g", "G"} THEN Ok("Medium")
    ELSE IF c \in {"s", "S", "b", "B"} THEN Ok("Short")
    ELSE Err(Unit)

\* The outcome of an indexing expression: a value, or a panic.
Returns(v) == [panics |-> FALSE, val |-> v]

Panics == [panics |-> TRUE, val |-> "Invalid index"]

\* A slip that makes the last arm a catch-all instead of a panic.
Mutant_index_usize(self, index) ==
    IF index = 0 THEN Returns(self.l)
    ELSE IF index = 1 THEN Returns(self.m)
    ELSE Returns(self.s)

\* impl Index<usize> for ConeCellSummary
ConeCellSummary_index_usize(self, index) ==
    IF index = 0 THEN Returns(self.l)
    ELSE IF index = 1 THEN Returns(self.m)
    ELSE IF index = 2 THEN Returns(self.s)
    ELSE Panics

\* impl Index<char> for ConeCellSummary
ConeCellSummary_index_char(self, index) ==
    IF index \in {"l", "L", "r", "R"} THEN Returns(self.l)
    ELSE IF index \in {"m", "M", "g", "G"} THEN Returns(self.m)
    ELSE IF index \in {"s", "S", "b", "B"} THEN Returns(self.s)
    ELSE Panics

\* A copy-and-paste slip in the arms: index 1 gives the long cone cell.
Mutant_index_mut_usize(self, index, x) ==
    IF index = 0 THEN Returns([self EXCEPT !.l = x])
    ELSE IF index = 1 THEN Returns([self EXCEPT !.l = x])
    ELSE IF index = 2 THEN Returns([self EXCEPT !.s = x])
    ELSE Panics

\* self[index] = x through impl IndexMut<usize> for ConeCellSummary: the
\* summary after the assignment, or a panic.
ConeCellSummary_index_mut_usize(self, index, x) ==
    IF index = 0 THEN Returns([self EXCEPT !.l = x])
    ELSE IF index = 1 THEN Returns([self EXCEPT !.m = x])
    ELSE IF index = 2 THEN Returns([self EXCEPT !.s = x])
    ELSE Panics

\* self[index] = x through impl IndexMut<char> for ConeCellSummary
ConeCellSummary_index_mut_char(self, index, x) ==
    IF index \in {"l", "L", "r", "R"} THEN Returns([self EXCEPT !.l = x])
    ELSE IF index \in {"m", "M", "g", "G"} THEN Returns([self EXCEPT !.m = x])
    ELSE IF index \in {"s", "S", "b", "B"} THEN Returns([self EXCEPT !.s = x])
    ELSE Panics

\* The indices assigned through: 0 to 3, and the twelve letters and one
\* other.
MutIndices == 0 .. 3

MutChars ==
    {"l", "L", "r", "R", "m", "M", "g", "G", "s", "S", "b", "B", "x"}

\* The record of a run of assignments: the summary before the first one,
\* and for each field the value last assigned through an index that names
\* it in the match arms ("none" before any).
NoAssignments == [l |-> "none", m |-> "none", s |-> "none"]

Assigning ==
    \/ cv = NoCall
    \/ /\ cv.op \in {"index_mut_usize", "index_mut_char"}
       /\ ~cv.panics

History(field, x) ==
    LET last == IF cv = NoCall THEN NoAssignments ELSE cv.last
    IN  [initial |-> IF cv = NoCall THEN summary ELSE cv.initial,
         last |-> IF field = "none" THEN last ELSE [last EXCEPT ![field] = x]]

\* A slip that derives is_protan from the summary: any long cone cell that
\* is not normal.
Mutant_is_protan(self) ==
    ConeCellSummary_from(self).l # "Normal"

\* ColorVision::is_protan
ColorVision_is_protan(self) ==
    self \in {"Protanomaly", "Protanopia"}

\* ColorVision::is_deutan
ColorVision_is_deutan(self) ==
    self \in {"Deuteranomaly", "Deuteranopia"}

\* A slip that leaves Tritanopia out of the pattern.
Mutant_is_tritan(self) ==
    self \in {"Tritanomaly"}

\* ColorVision::is_tritan
ColorVision_is_tritan(self) ==
    self \in {"Tritanomaly", "Tritanopia"}

\* A slip that leaves Achromatomaly out of the pattern.
Mutant_is_monochromacy(self) ==
    self \in {"Achromatopsia"}

\* ColorVision::is_monochromacy
ColorVision_is_monochromacy(self) ==
    self \in {"Achromatomaly", "Achromatopsia"}

\* ColorVision::is_red_green
ColorVision_is_red_green(self) ==
    ColorVision_is_protan(self) \/ ColorVision_is_deutan(self)

\* ColorVision::is_blue_yellow
ColorVision_is_blue_yellow(self) ==
    ColorVision_is_tritan(self)

\* ColorVision::is_anomalous_trichromacy
ColorVision_is_anomalous_trichromacy(self) ==
    self \in {"Protanomaly", "Deuteranomaly", "Tritanomaly"}

\* A slip that leaves Tritanopia out of the pattern, as the doc example of
\* is_dichromacy does.
Mutant_is_dichromacy(self) ==
    self \in {"Protanopia", "Deuteranopia"}

\* ColorVision::is_dichromacy
ColorVision_is_dichromacy(self) ==
    self \in {"Protanopia", "Deuteranopia", "Tritanopia"}

\* The greatest of the small indices tried, and the indices tried: the
\* small ones and the greatest 32-bit signed value.
MaxIndex == 5

UsizeSamples == (0 .. MaxIndex) \cup {\H7FFFFFFF}

\* The variables of the other components.
CvOthers == <<dev, sig, rec, arr, arrcall, num, prof, codec>>

\* summary = ConeCellSummary::new(l, m, s); rgb, From<(_, _, _)> and
\* From<[_; 3]> pass their three values to new in the same order.
CvSummaryNew ==
    /\ cv = NoCall
    /\ \E l \in ConeCellCond, m \in ConeCellCond, s \in ConeCellCond :
           summary' = ConeCellSummary_new(l, m, s)
    /\ UNCHANGED cv
    /\ UNCHANGED CvOthers

\* let s = ConeCellSummary::from(v); ColorVision::try_from(s)
CvSummaryFrom ==
    /\ cv = NoCall
    /\ \E v \in ColorVision :
           cv' = [op |-> "summary_from", input |-> v,
                  out |-> ConeCellSummary_from(v),
                  back |-> ColorVision_try_from(ConeCellSummary_from(v))]
    /\ UNCHANGED summary
    /\ UNCHANGED CvOthers

\* ColorVision::try_from(summary)
CvTryFrom ==
    /\ cv = NoCall
    /\ cv' = [op |-> "try_from", input |-> summary,
              out |-> ColorVision_try_from(summary)]
    /\ UNCHANGED summary
    /\ UNCHANGED CvOthers

\* Every predicate of ColorVision applied to v, next to the summary of v.
CvPredicates ==
    /\ cv = NoCall
    /\ \E v \in ColorVision :
           cv' = [op |-> "predicates", input |-> v,
                  summary |-> ConeCellSummary_from(v),
                  is_red_green |-> ColorVision_is_red_green(v),
                  is_blue_yellow |-> ColorVision_is_blue_yellow(v),
                  is_protan |-> ColorVision_is_protan(v),
                  is_deutan |-> ColorVision_is_deutan(v),
                  is_tritan |-> ColorVision_is_tritan(v),
                  is_monochromacy |-> ColorVision_is_monochromacy(v),
                  is_anomalous_trichromacy |-> ColorVision_is_anomalous_trichromacy(v),
                  is_dichromacy |-> ColorVision_is_dichromacy(v)]
    /\ UNCHANGED summary
    /\ UNCHANGED CvOthers

\* ConeCell::try_from(c)
CvConeTryFrom ==
    /\ cv = NoCall
    /\ \E c \in Chars :
           cv' = [op |-> "cone_try_from", input |-> c, out |-> ConeCell_try_from(c)]
    /\ UNCHANGED summary
    /\ UNCHANGED CvOthers

\* summary[index] for a usize index
CvIndexUsize ==
    /\ cv = NoCall
    /\ \E index \in UsizeSamples :
           cv' = [op |-> "index_usize", self |-> summary, input |-> index,
                  out |-> ConeCellSummary_index_usize(summary, index)]
    /\ UNCHANGED summary
    /\ UNCHANGED CvOthers

\* summary[index] for a char index
CvIndexChar ==
    /\ cv = NoCall
    /\ \E index \in Chars :
           cv' = [op |-> "index_char", self |-> summary, input |-> index,
                  out |-> ConeCellSummary_index_char(summary, index)]
    /\ UNCHANGED summary
    /\ UNCHANGED CvOthers

\* summary[index] = x for a usize index; a panic ends the run.
CvIndexMutUsize ==
    /\ Assigning
    /\ \E index \in MutIndices, x \in ConeCellCond :
           LET r == ConeCellSummary_index_mut_usize(summary, index, x)
               field == CASE index = 0 -> "l" [] index = 1 -> "m"
                          [] index = 2 -> "s" [] OTHER -> "none"
               h == History(field, x)
           IN  /\ summary' = IF r.panics THEN summary ELSE r.val
               /\ cv' = [op |-> "index_mut_usize", input |-> index, value |-> x,
                         panics |-> r.panics, initial |-> h.initial, last |-> h.last]
    /\ UNCHANGED CvOthers

\* summary[index] = x for a char index; a panic ends the run.
CvIndexMutChar ==
    /\ Assigning
    /\ \E index \in MutChars, x \in ConeCellCond :
           LET r == ConeCellSummary_index_mut_char(summary, index, x)
               field == CASE index \in {"l", "L", "r", "R"} -> "l"
                          [] index \in {"m", "M", "g", "G"} -> "m"
                          [] index \in {"s", "S", "b", "B"} -> "s"
                          [] OTHER -> "none"
               h == History(field, x)
           IN  /\ summary' = IF r.panics THEN summary ELSE r.val
               /\ cv' = [op |-> "index_mut_char", input |-> index, value |-> x,
                         panics |-> r.panics, initial |-> h.initial, last |-> h.last]
    /\ UNCHANGED CvOthers

CvNext ==
    \/ CvSummaryNew \/ CvSummaryFrom \/ CvTryFrom
    \/ CvPredicates \/ CvConeTryFrom \/ CvIndexUsize \/ CvIndexChar
    \/ CvIndexMutUsize \/ CvIndexMutChar

(***************************************************************************)
(* The profile container and its codec.  The source declares the reader    *)
(* (IccProfileReader), the header (IccProfileHeaderU128) and the records,  *)
(* and holds no decode or encode code; the operators below follow the      *)
(* contract of the specification, sections 4.3 to 4.5, 6 and 7.  A         *)
(* serialized container is a sequence of cells, one cell for each field,   *)
(* and offsets and sizes count cells:                                      *)
(*   header      profile_size, version, profile_id                         *)
(*   tag table   the count of entries, then (signature, offset, size)      *)
(*   data pool   records: type_signature, reserved, [count,] elements      *)
(***************************************************************************)

\* The cells of the header, and the cells of a tag table entry.
HeaderLen == 3
EntryLen == 3

\* The positions of profile_size, version and profile_id in the header.
SizeAt == 1
VersionAt == 2
IdAt == 3

\* The record types of the codec: the counted records and Text.
RecordTypes == CountedRecords \cup {"Text"}

\* The type signature of each record type: clro, parf, samf, psid, text.
RecordTypeSignature(type) ==
    CASE type = "ColorantOrder" -> \H636C726F
      [] type = "FormulaCurveSegment" -> \H70617266
      [] type = "SampledCurveSegment" -> \H73616D66
      [] type = "ProfileSequenceIdentifier" -> \H70736964
      [] type = "Text" -> \H74657874

\* The record type of a type signature, "Unknown" for any other value.
TypeOfSignature(code) ==
    IF \E type \in RecordTypes : RecordTypeSignature(type) = code
    THEN CHOOSE type \in RecordTypes : RecordTypeSignature(type) = code
    ELSE "Unknown"

\* The tag signatures of the model (targ, clro, psid) and the record type
\* each one holds.
TagRows ==
    << [sig |-> \H74617267, type |-> "Text"],
       [sig |-> \H636C726F, type |-> "ColorantOrder"],
       [sig |-> \H70736964, type |-> "ProfileSequenceIdentifier"] >>

TagSignatures == {TagRows[i].sig : i \in 1 .. Len(TagRows)}

TagRecordType(signature) ==
    LET i == CHOOSE k \in 1 .. Len(TagRows) : TagRows[k].sig = signature
    IN  TagRows[i].type

\* struct Text: type_signature (kept as the type), reserved_1, text.
TextRecord(reserved, text) == [type |-> "Text", reserved_1 |-> reserved, seq |-> text]

\* A counted record struct: type_signature (kept as the type), reserved_1,
\* the count field and the sequence it counts.
TaggedRecord(type, reserved, count, seq) ==
    [type |-> type, reserved_1 |-> reserved, count |-> count, seq |-> seq]

\* A typed error: its kind, the decode step or operation that met it, the
\* record type and the offset it is about ("-" and 0 where there is none).
Error(kind, step, type, offset) ==
    [kind |-> kind, step |-> step, type |-> type, offset |-> offset]

NoError == [kind |-> "none"]

\* An encoder that writes zero in the reserved cell whatever the record
\* holds.
Mutant_encode_record(r) ==
    IF r.type = "Text"
    THEN <<RecordTypeSignature(r.type), 0>> \o r.seq
    ELSE <<RecordTypeSignature(r.type), 0, Len(r.seq)>> \o r.seq

\* encode of one record: the count cell is computed from the sequence, not
\* taken from the count field.
encode_record(r) ==
    IF r.type = "Text"
    THEN <<RecordTypeSignature(r.type), r.reserved_1>> \o r.seq
    ELSE <<RecordTypeSignature(r.type), r.reserved_1, Len(r.seq)>> \o r.seq

\* A decoder that, when the pool is short, lowers the count to what is
\* there instead of failing.
Mutant_decode_record(bytes, base) ==
    IF Len(bytes) < 2
    THEN Err(Error("TruncatedRecord", "tag_data", "Unknown", base + Len(bytes)))
    ELSE LET type == TypeOfSignature(bytes[1])
         IN  IF type = "Unknown"
             THEN Err(Error("UnrecognizedSignature", "tag_data", "Unknown", base))
             ELSE IF type = "Text"
             THEN Ok(TextRecord(bytes[2], SubSeq(bytes, 3, Len(bytes))))
             ELSE IF Len(bytes) < 3
             THEN Err(Error("TruncatedRecord", "tag_data", type, base + Len(bytes)))
             ELSE IF bytes[3] > Len(bytes) - 3
             THEN Ok(TaggedRecord(type, bytes[2], Len(bytes) - 3, SubSeq(bytes, 4, Len(bytes))))
             ELSE Ok(TaggedRecord(type, bytes[2], bytes[3], SubSeq(bytes, 4, 3 + bytes[3])))

\* decode of one record from the cells bytes, which start at offset base
\* of the container: the type signature and the reserved cell, then for a
\* counted record the count and exactly that many elements.  A Text record
\* has no count: its text is the rest of its cells.
decode_record(bytes, base) ==
    IF Len(bytes) < 2
    THEN Err(Error("TruncatedRecord", "tag_data", "Unknown", base + Len(bytes)))
    ELSE LET type == TypeOfSignature(bytes[1])
         IN  IF type = "Unknown"
             THEN Err(Error("UnrecognizedSignature", "tag_data", "Unknown", base))
             ELSE IF type = "Text"
             THEN Ok(TextRecord(bytes[2], SubSeq(bytes, 3, Len(bytes))))
             ELSE IF Len(bytes) < 3
             THEN Err(Error("TruncatedRecord", "tag_data", type, base + Len(bytes)))
             ELSE IF bytes[3] > Len(bytes) - 3
             THEN Err(Error("TruncatedRecord", "tag_data", type, base + Len(bytes)))
             ELSE Ok(TaggedRecord(type, bytes[2], bytes[3], SubSeq(bytes, 4, 3 + bytes[3])))

\* The data pool of a tag sequence: the records one after the other.
RECURSIVE PoolOf(_)
PoolOf(tags) ==
    IF tags = <<>> THEN <<>>
    ELSE encode_record(Head(tags).rec) \o PoolOf(Tail(tags))

\* The tag table entries of a tag sequence whose first record is at offset.
RECURSIVE TableOf(_, _)
TableOf(tags, offset) ==
    IF tags = <<>> THEN <<>>
    ELSE LET size == Len(encode_record(Head(tags).rec))
         IN  <<Head(tags).sig, offset, size>> \o TableOf(Tail(tags), offset + size)

\* The serialized container of a version, a profile_id and a tag sequence.
\* profile_size is the total length.
Serialize(version, id, tags) ==
    LET start == HeaderLen + 1 + EntryLen * Len(tags)
        body == <<Len(tags)>> \o TableOf(tags, start) \o PoolOf(tags)
    IN  <<HeaderLen + Len(body), version, id>> \o body

\* The modulus of the checksum.
ChecksumModulus == 251

RECURSIVE SumCells(_)
SumCells(bytes) ==
    IF bytes = <<>> THEN 0
    ELSE ((Head(bytes) % ChecksumModulus) + SumCells(Tail(bytes))) % ChecksumModulus

\* profile_id: a checksum over the serialized cells, the profile_id cell
\* itself left out.
profile_id(bytes) ==
    SumCells([bytes EXCEPT ![IdAt] = 0])

\* An encoder that writes the profile_id it holds, computed or read before
\* the last change.
Mutant_encode(c) ==
    Serialize(c.version, c.id, c.tags)

\* encode: the profile_id is recomputed when a header field or a tag has
\* changed since it was computed.
encode(c) ==
    IF c.dirty
    THEN Serialize(c.version, profile_id(Serialize(c.version, 0, c.tags)), c.tags)
    ELSE Serialize(c.version, c.id, c.tags)

\* A header decoder that does not compare profile_size with the length.
Mutant_decode_header(bytes) ==
    IF Len(bytes) < HeaderLen
    THEN Err(Error("SizeMismatch", "header", "-", Len(bytes)))
    ELSE Ok([version |-> bytes[VersionAt], id |-> bytes[IdAt]])

\* decode, first step: the header.  profile_size must be the total length;
\* a buffer too short to hold a header has no size that could match.
decode_header(bytes) ==
    IF Len(bytes) < HeaderLen
    THEN Err(Error("SizeMismatch", "header", "-", Len(bytes)))
    ELSE IF bytes[SizeAt] # Len(bytes)
    THEN Err(Error("SizeMismatch", "header", "-", Len(bytes)))
    ELSE Ok([version |-> bytes[VersionAt], id |-> bytes[IdAt]])

\* The i-th entry of the tag table.
EntryAt(bytes, i) ==
    LET at == HeaderLen + 1 + EntryLen * (i - 1)
    IN  [sig |-> bytes[at + 1], offset |-> bytes[at + 2], size |-> bytes[at + 3]]

\* decode, second step: the tag table.  The entries must fit the buffer and
\* each must point into the data pool.
decode_tag_table(bytes) ==
    IF Len(bytes) < HeaderLen + 1
    THEN Err(Error("TruncatedRecord", "tag_table", "TagTable", Len(bytes)))
    ELSE LET n == bytes[HeaderLen + 1]
             start == HeaderLen + 1 + EntryLen * n
         IN  IF n > (Len(bytes) - HeaderLen - 1) \div EntryLen
             THEN Err(Error("TruncatedRecord", "tag_table", "TagTable", Len(bytes)))
             ELSE LET entries == [i \in 1 .. n |-> EntryAt(bytes, i)]
                      Bad(e) == \/ e.offset < start
                                \/ e.offset > Len(bytes)
                                \/ e.size > Len(bytes) - e.offset
                  IN  IF \E i \in 1 .. n : Bad(entries[i])
                      THEN LET i == CHOOSE k \in 1 .. n :
                                        /\ Bad(entries[k])
                                        /\ \A j \in 1 .. (k - 1) : ~Bad(entries[j])
                           IN  Err(Error("InvalidOffset", "tag_table", "TagTable",
                                         entries[i].offset))
                      ELSE Ok(entries)

\* A set_tag that replaces the record of a signature already declared.
Mutant_set_tag(tags, signature, record) ==
    IF TagRecordType(signature) # record.type
    THEN Err(Error("TagTypeMismatch", "set_tag", record.type, 0))
    ELSE IF \E i \in 1 .. Len(tags) : tags[i].sig = signature
    THEN Ok([i \in 1 .. Len(tags) |->
                IF tags[i].sig = signature THEN [sig |-> signature, rec |-> record]
                ELSE tags[i]])
    ELSE Ok(Append(tags, [sig |-> signature, rec |-> record]))

\* set_tag(signature, record) on the tag sequence of a profile.
set_tag(tags, signature, record) ==
    IF \E i \in 1 .. Len(tags) : tags[i].sig = signature
    THEN Err(Error("DuplicateTag", "set_tag", record.type, 0))
    ELSE IF TagRecordType(signature) # record.type
    THEN Err(Error("TagTypeMismatch", "set_tag", record.type, 0))
    ELSE Ok(Append(tags, [sig |-> signature, rec |-> record]))

\* get_tag(signature)
get_tag(tags, signature) ==
    IF \E i \in 1 .. Len(tags) : tags[i].sig = signature
    THEN LET i == CHOOSE k \in 1 .. Len(tags) : tags[k].sig = signature
         IN  [some |-> TRUE, val |-> tags[i].rec]
    ELSE [some |-> FALSE]

\* decode, third step: each entry's record is decoded from its cells and
\* inserted with set_tag, in table order; the first failure ends the step.
RECURSIVE decode_tags(_, _, _)
decode_tags(bytes, entries, tags) ==
    IF entries = <<>> THEN Ok(tags)
    ELSE LET e == Head(entries)
         IN  IF e.sig \notin TagSignatures
             THEN Err(Error("UnrecognizedSignature", "tag_data", "-", e.offset))
             ELSE LET r == decode_record(SubSeq(bytes, e.offset + 1, e.offset + e.size),
                                         e.offset)
                  IN  IF ~r.ok THEN r
                      ELSE LET s == set_tag(tags, e.sig, r.val)
                           IN  IF ~s.ok
                               THEN Err([s.err EXCEPT !.step = "tag_data",
                                                      !.offset = e.offset])
                               ELSE decode_tags(bytes, Tail(entries), s.val)

\* The most tags of a serialized profile given to decode, and the most
\* operations applied to a decoded profile.
MaxTags == 2
MaxOps == 3

\* The records put in profiles: for each type an empty one and a full one
\* (the text abc; two elements), the count equal to the length.
SampleRecords(type) ==
    IF type = "Text"
    THEN {TextRecord(0, <<>>), TextRecord(0, <<97, 98, 99>>)}
    ELSE {TaggedRecord(type, 0, 0, <<>>), TaggedRecord(type, 0, 2, <<2, 1>>)}

\* The records given to set_tag: a full one of each type a tag holds.
SetTagRecords ==
    {TextRecord(0, <<97, 98, 99>>)} \cup
    {TaggedRecord(TagRows[i].type, 0, 2, <<2, 1>>) : i \in 2 .. Len(TagRows)}

\* The tag sequences of at most MaxTags tags, each signature once and with
\* a record of its type.
TagSeqs ==
    LET Tags == {[sig |-> s, rec |-> r] :
                    s \in TagSignatures, r \in UNION {SampleRecords(y) : y \in RecordTypes}}
        Valid(g) == g.rec.type = TagRecordType(g.sig)
    IN  {q \in UNION {[1 .. k -> {g \in Tags : Valid(g)}] : k \in 0 .. MaxTags} :
            \A i \in 1 .. Len(q), j \in 1 .. Len(q) : q[i].sig = q[j].sig => i = j}

\* The well-formed serialized profiles: version 4 and the right profile_id.
WellFormed ==
    {Serialize(4, profile_id(Serialize(4, 0, q)), q) : q \in TagSeqs}

\* The values written over a cell of a well-formed profile: small numbers
\* and the tag signatures (two of them are type signatures as well, the
\* third is the type signature of no record).
CellValues ==
    (0 .. 3) \cup TagSignatures

\* The buffers given to decode: every well-formed profile, and each one
\* cut short, with a cell appended, or with one cell overwritten.
Inputs ==
    UNION {{SubSeq(b, 1, k) : k \in 0 .. Len(b)}
           \cup {b \o <<0>>}
           \cup {[b EXCEPT ![i] = v] : i \in 1 .. Len(b), v \in CellValues} :
           b \in WellFormed}

\* A container before decode.  Next to the profile it keeps what the
\* properties look at: the buffer given to decode, the last operation and
\* its signature argument, the error of the last failure, whether the
\* profile was ever changed, and the last output of encode.
EmptyProfile ==
    [state |-> "Empty", op |-> "new", bytes |-> <<>>, version |-> 0, id |-> 0,
     entries |-> <<>>, tags |-> <<>>, dirty |-> FALSE, changed |-> FALSE,
     error |-> NoError, ops |-> 0, arg |-> 0, out |-> <<>>]

\* The variables of the other components.
ProfOthers == <<dev, sig, rec, arr, arrcall, num, summary, cv>>

\* decode(bytes), first step.
ProfDecodeHeader ==
    /\ prof = EmptyProfile
    /\ codec = NoCall
    /\ \E bytes \in Inputs :
           LET r == decode_header(bytes)
           IN  prof' = IF r.ok
                       THEN [prof EXCEPT !.state = "HeaderParsed", !.op = "decode",
                                         !.bytes = bytes,
                                         !.version = r.val.version, !.id = r.val.id]
                       ELSE [prof EXCEPT !.op = "decode", !.bytes = bytes,
                                         !.error = r.err]
    /\ UNCHANGED codec
    /\ UNCHANGED ProfOthers

\* decode(bytes), second step.
ProfDecodeTagTable ==
    /\ prof.state = "HeaderParsed"
    /\ prof.error = NoError
    /\ LET r == decode_tag_table(prof.bytes)
       IN  prof' = IF r.ok
                   THEN [prof EXCEPT !.state = "TagTableParsed", !.entries = r.val]
                   ELSE [prof EXCEPT !.error = r.err]
    /\ UNCHANGED codec
    /\ UNCHANGED ProfOthers

\* A third step that, when it fails, throws away what was decoded so far.
Mutant_ProfDecodeTags ==
    /\ prof.state = "TagTableParsed"
    /\ prof.error = NoError
    /\ LET r == decode_tags(prof.bytes, prof.entries, <<>>)
       IN  prof' = IF r.ok
                   THEN [prof EXCEPT !.state = "Ready", !.tags = r.val]
                   ELSE [EmptyProfile EXCEPT !.op = "decode", !.bytes = prof.bytes,
                                             !.error = r.err]
    /\ UNCHANGED codec
    /\ UNCHANGED ProfOthers

\* decode(bytes), third step.
ProfDecodeTags ==
    /\ prof.state = "TagTableParsed"
    /\ prof.error = NoError
    /\ LET r == decode_tags(prof.bytes, prof.entries, <<>>)
       IN  prof' = IF r.ok
                   THEN [prof EXCEPT !.state = "Ready", !.tags = r.val]
                   ELSE [prof EXCEPT !.error = r.err]
    /\ UNCHANGED codec
    /\ UNCHANGED ProfOthers

\* set_tag(signature, record) on a decoded profile.
ProfSetTag ==
    /\ prof.state = "Ready"
    /\ prof.ops < MaxOps
    /\ \E signature \in TagSignatures, record \in SetTagRecords :
           LET r == set_tag(prof.tags, signature, record)
           IN  prof' = IF r.ok
                       THEN [prof EXCEPT !.op = "set_tag", !.arg = signature,
                                         !.tags = r.val,
                                         !.dirty = TRUE, !.changed = TRUE,
                                         !.error = NoError, !.ops = @ + 1]
                       ELSE [prof EXCEPT !.op = "set_tag", !.arg = signature,
                                         !.error = r.err, !.ops = @ + 1]
    /\ UNCHANGED codec
    /\ UNCHANGED ProfOthers

\* A header field of a decoded profile is changed.
ProfSetVersion ==
    /\ prof.state = "Ready"
    /\ prof.ops < MaxOps
    /\ \E version \in {2, 4} \ {prof.version} :
           prof' = [prof EXCEPT !.op = "set_version", !.version = version,
                                !.dirty = TRUE, !.changed = TRUE,
                                !.error = NoError, !.ops = @ + 1]
    /\ UNCHANGED codec
    /\ UNCHANGED ProfOthers

\* encode(&profile): the profile keeps the profile_id written.
ProfEncode ==
    /\ prof.state = "Ready"
    /\ prof.ops < MaxOps
    /\ LET out == encode(prof)
       IN  prof' = [prof EXCEPT !.op = "encode", !.out = out, !.id = out[IdAt],
                                !.dirty = FALSE, !.error = NoError, !.ops = @ + 1]
    /\ UNCHANGED codec
    /\ UNCHANGED ProfOthers

\* let b = encode(r); decode(b), for a record literal r of any count.
CodecRoundTrip ==
    /\ codec = NoCall
    /\ prof = EmptyProfile
    /\ \E type \in RecordTypes, reserved \in {0, 1}, count \in 0 .. MaxCount,
          seq \in SeqsUpTo(MaxLen) :
           LET r == IF type = "Text" THEN TextRecord(reserved, seq)
                    ELSE TaggedRecord(type, reserved, count, seq)
               b == encode_record(r)
           IN  codec' = [op |-> "round_trip", r |-> r, bytes |-> b,
                         out |-> decode_record(b, 0)]
    /\ UNCHANGED prof
    /\ UNCHANGED ProfOthers

\* decode of a record from a pool that declares count elements and holds
\* seq, at offset base of its container.
CodecDecode ==
    /\ codec = NoCall
    /\ prof = EmptyProfile
    /\ \E type \in CountedRecords, count \in 0 .. MaxCount, seq \in SeqsUpTo(MaxLen),
          base \in {0, HeaderLen + 1 + EntryLen} :
           LET b == <<RecordTypeSignature(type), 0, count>> \o seq
           IN  codec' = [op |-> "decode", type |-> type, base |-> base, bytes |-> b,
                         out |-> decode_record(b, base)]
    /\ UNCHANGED prof
    /\ UNCHANGED ProfOthers

ProfNext ==
    \/ ProfDecodeHeader \/ ProfDecodeTagTable \/ ProfDecodeTags
    \/ ProfSetTag \/ ProfSetVersion \/ ProfEncode
    \/ CodecRoundTrip \/ CodecDecode

(***************************************************************************)
(* Specifications.  Each one exercises one component; the variables of the *)
(* other components keep their initial values.                             *)
(***************************************************************************)

\* Before any call: no call record, no record or array held, and the
\* default summary.
Init ==
    /\ dev = NoCall
    /\ sig = NoCall
    /\ rec = NoRecord
    /\ arr = NoArray
    /\ arrcall = NoCall
    /\ num = NoCall
    /\ summary = ConeCellSummary_default
    /\ cv = NoCall
    /\ prof = EmptyProfile
    /\ codec = NoCall

SpecDev == Init /\ [][DevNext]_vars

SpecSig == Init /\ [][SigNext]_vars

SpecRec == Init /\ [][RecNext]_vars

SpecArr == Init /\ [][ArrNext]_vars

SpecNum == Init /\ [][NumNext]_vars

SpecCV == Init /\ [][CvNext]_vars

SpecProf == Init /\ [][ProfNext]_vars

(***************************************************************************)
(* Properties.                                                             *)
(***************************************************************************)

\* C1: DeviceAttributes::from([high, low]) equals DeviceAttributes::from of
\* the 64-bit value whose bits 32..63 are high and whose bits 0..31 are low:
\* every bit of both halves is kept, at its own place.
C1_DeviceAttributesEquivalence ==
    dev.op = "from_array" =>
        /\ dev.out = DeviceAttributes_from_u64(Combine(dev.high, dev.low))
        /\ Width(dev.out.bits) = U64Bits
        /\ \A i \in 0 .. (U32Bits - 1) :
              /\ dev.out.bits[i] = dev.low[i]
              /\ dev.out.bits[i + U32Bits] = dev.high[i]

\* C1 witness: from([high, low]) was called with the top bit of the low half
\* and the bottom bit of the high half set and the neighbouring bits clear.
C1_Witness ==
    /\ dev.op = "from_array"
    /\ dev.low = BitWord(U32Bits, U32Bits - 1)
    /\ dev.high = BitWord(U32Bits, 0)

\* C2: whenever from_str accepts a string for a variant, the string is four
\* characters long and its four bytes, read big-endian, are the variant's
\* 32-bit discriminant.
C2_StringMatchesDiscriminant ==
    (sig.op = "from_str" /\ sig.out.ok) =>
        /\ Len(sig.input) = 4
        /\ FromBeBytes(Bytes(sig.input)) = Discriminant(sig.enum, sig.out.val)

C5_CountEqualsLength ==
    rec # NoRecord => rec.count = Len(rec.seq)

\* The ICC code of each array type, as C6 names it.
IccArrayCode(a) ==
    CASE a = "S15Fixed16Array" -> <<"s", "f", "3", "2">>
      [] a = "U16Fixed16Array" -> <<"u", "f", "3", "2">>
      [] a = "U16Array" -> <<"u", "i", "1", "6">>
      [] a = "U32Array" -> <<"u", "i", "3", "2">>
      [] a = "U64Array" -> <<"u", "i", "6", "4">>
      [] a = "U8Array" -> <<"u", "i", "0", "8">>

\* C6: every array record, however it was built (new, From<Vec<_>>,
\* Default) and whatever was done to its values since, has reserved_1 = 0
\* and the type_signature of its own type: the four characters of its ICC
\* code, read big-endian.
C6_ArrayHeaderFixed ==
    arr # NoArray =>
        /\ arr.reserved_1 = 0
        /\ arr.type_signature = FromBeBytes(Bytes(IccArrayCode(arr.a)))

\* C6 witness: a U64Array that was built and then had its values changed to
\* a full-length vector.
C6_Witness ==
    /\ arr # NoArray
    /\ arr.a = "U64Array"
    /\ Len(arr.values) = MaxLen
    /\ arr.type_signature = \H75693634

\* C7: T::new(x).get() is x, bit for bit, and T::from(x) is T::new(x).
C7_NewGetLossless ==
    /\ num.op = "new" =>
          /\ num.got = num.input
          /\ num.val.ty = num.ty
    /\ num.op = "from" => num.val = impl_num_primitive_new(num.ty, num.input)

\* C7 witness: new and get were applied to the S15Fixed16 whose raw value
\* has only the sign bit set.
C7_Witness ==
    /\ num.op = "new"
    /\ num.ty = "S15Fixed16"
    /\ num.input = BitWord(U32Bits, U32Bits - 1)
    /\ num.got = num.input

C9_VisionRoundTrip ==
    cv.op = "summary_from" =>
        /\ cv.back = Ok(cv.input)
        /\ \A w \in ColorVision : ConeCellSummary_from(w) = cv.out => w = cv.input

\* C9 witness: the round trip was made for Achromatomaly.
C9_Witness ==
    /\ cv.op = "summary_from"
    /\ cv.input = "Achromatomaly"
    /\ cv.out = ConeCellSummary_new("Missing", "Missing", "Normal")

\* C10: for each of the 27 summaries s, try_from(s) is Ok(v) only if the
\* summary of v is s, and is Err(()) for a summary of no variant; there are
\* 18 of those.
C10_TryFromSound ==
    cv.op = "try_from" =>
        /\ cv.out.ok => (cv.out.val \in ColorVision /\ ConeCellSummary_from(cv.out.val) = cv.input)
        /\ (\A v \in ColorVision : ConeCellSummary_from(v) # cv.input) => cv.out = Err(Unit)
        /\ Cardinality({s \in ConeCellSummaries :
                            \A v \in ColorVision : ConeCellSummary_from(v) # s}) = 18
        /\ Cardinality(ConeCellSummaries) = 27

\* C10 witness: try_from was given a summary of no variant (a missing long
\* cone cell, an anomalous medium one) and returned the error.
C10_Witness ==
    /\ cv.op = "try_from"
    /\ cv.input = ConeCellSummary_new("Missing", "Anomalous", "Normal")
    /\ cv.out = Err(Unit)

\* C11: over the nine variants, is_protan, is_deutan, is_tritan and
\* is_monochromacy each hold for exactly their two variants; is_red_green is
\* is_protan or is_deutan; is_blue_yellow is is_tritan; Normal satisfies
\* none of them.
C11_PredicatesPartition ==
    cv.op = "predicates" =>
        /\ cv.is_protan <=> cv.input \in {"Protanomaly", "Protanopia"}
        /\ cv.is_deutan <=> cv.input \in {"Deuteranomaly", "Deuteranopia"}
        /\ cv.is_tritan <=> cv.input \in {"Tritanomaly", "Tritanopia"}
        /\ cv.is_monochromacy <=> cv.input \in {"Achromatomaly", "Achromatopsia"}
        /\ cv.is_red_green <=> (cv.is_protan \/ cv.is_deutan)
        /\ cv.is_blue_yellow <=> cv.is_tritan
        /\ cv.input = "Normal" =>
              ~(cv.is_protan \/ cv.is_deutan \/ cv.is_tritan \/ cv.is_monochromacy
                \/ cv.is_red_green \/ cv.is_blue_yellow)
        /\ Cardinality({v \in ColorVision : ColorVision_is_protan(v)}) = 2
        /\ Cardinality({v \in ColorVision : ColorVision_is_deutan(v)}) = 2
        /\ Cardinality({v \in ColorVision : ColorVision_is_tritan(v)}) = 2
        /\ Cardinality({v \in ColorVision : ColorVision_is_monochromacy(v)}) = 2

\* C11 witness: the predicates were applied to Achromatomaly, whose long
\* cone cell is missing and which is a monochromacy, not a protan.
C11_Witness ==
    /\ cv.op = "predicates"
    /\ cv.input = "Achromatomaly"
    /\ cv.is_monochromacy
    /\ ~cv.is_protan
    /\ ~cv.is_red_green

\* C12: ConeCell::try_from(c) is Ok(Long) exactly for l, L, r, R, Ok(Medium)
\* exactly for m, M, g, G, Ok(Short) exactly for s, S, b, B, and Err(()) for
\* every other character.
C12_ConeTryFromLetters ==
    cv.op = "cone_try_from" =>
        /\ cv.out = Ok("Long") <=> cv.input \in {"l", "L", "r", "R"}
        /\ cv.out = Ok("Medium") <=> cv.input \in {"m", "M", "g", "G"}
        /\ cv.out = Ok("Short") <=> cv.input \in {"s", "S", "b", "B"}
        /\ cv.out = Err(Unit) <=>
              cv.input \notin {"l", "L", "r", "R", "m", "M", "g", "G", "s", "S", "b", "B"}
        /\ cv.out.ok => cv.out.val \in ConeCell

\* C12 witness: try_from was given an upper-case letter and accepted it.
C12_Witness ==
    /\ cv.op = "cone_try_from"
    /\ cv.input = "G"
    /\ cv.out = Ok("Medium")

\* A second C12 case reached: a letter outside the twelve was refused.
C12_WitnessErr ==
    /\ cv.op = "cone_try_from"
    /\ cv.input = "U+017F"
    /\ cv.out = Err(Unit)

\* C13: s[0], s[1], s[2] are s.l, s.m, s.s; s[c] is the l, m, s field for
\* the letters l/r, m/g, s/b in either case; every other usize or char
\* panics and returns no value.
C13_IndexOrPanic ==
    /\ cv.op = "index_usize" =>
          /\ cv.input = 0 => cv.out = Returns(cv.self.l)
          /\ cv.input = 1 => cv.out = Returns(cv.self.m)
          /\ cv.input = 2 => cv.out = Returns(cv.self.s)
          /\ cv.input \notin {0, 1, 2} => cv.out.panics
    /\ cv.op = "index_char" =>
          /\ cv.input \in {"l", "L", "r", "R"} => cv.out = Returns(cv.self.l)
          /\ cv.input \in {"m", "M", "g", "G"} => cv.out = Returns(cv.self.m)
          /\ cv.input \in {"s", "S", "b", "B"} => cv.out = Returns(cv.self.s)
          /\ cv.input \notin {"l", "L", "r", "R", "m", "M", "g", "G", "s", "S", "b", "B"} =>
                cv.out.panics

\* C13 witness: a summary with three different conditions was indexed by
\* 3, and the indexing panicked.
C13_Witness ==
    /\ cv.op = "index_usize"
    /\ cv.self = ConeCellSummary_new("Normal", "Anomalous", "Missing")
    /\ cv.input = 3
    /\ cv.out.panics

\* A second C13 case reached: the same summary indexed by the letter B.
C13_WitnessChar ==
    /\ cv.op = "index_char"
    /\ cv.self = ConeCellSummary_new("Normal", "Anomalous", "Missing")
    /\ cv.input = "B"
    /\ cv.out = Returns("Missing")

\* The state after a state of the decode order, and the step that leaves it.
StateAfter(state) ==
    CASE state = "Empty" -> "HeaderParsed"
      [] state = "HeaderParsed" -> "TagTableParsed"
      [] state = "TagTableParsed" -> "Ready"
      [] state = "Ready" -> "Ready"

StepFrom(state) ==
    CASE state = "Empty" -> "header"
      [] state = "HeaderParsed" -> "tag_table"
      [] state = "TagTableParsed" -> "tag_data"
      [] state = "Ready" -> "-"

\* The kinds of error that decode returns.
DecodeErrorKinds ==
    {"SizeMismatch", "TruncatedRecord", "InvalidOffset", "UnrecognizedSignature",
     "DuplicateTag", "TagTypeMismatch"}

\* C14: every step keeps the state or moves it to the next one of Empty,
\* HeaderParsed, TagTableParsed, Ready; a decode step either succeeds and
\* moves on, or fails, keeps the state and what was decoded before, and
\* leaves a typed error that names the step; Ready is never left; a change
\* of a Ready profile leaves it Ready and dirty.
C14_DecodeStateMachine ==
    [][/\ prof'.state \in {prof.state, StateAfter(prof.state)}
       /\ (prof' # prof /\ prof.state # "Ready") =>
             \/ /\ prof'.state = StateAfter(prof.state)
                /\ prof'.error = NoError
             \/ /\ prof'.state = prof.state
                /\ prof'.error # NoError
                /\ prof'.error.kind \in DecodeErrorKinds
                /\ prof'.error.step = StepFrom(prof.state)
                /\ prof'.entries = prof.entries
                /\ prof'.tags = prof.tags
                /\ prof.state # "Empty" =>
                      (prof'.version = prof.version /\ prof'.id = prof.id)
       /\ prof.state = "Ready" => prof'.state = "Ready"
       /\ (prof.state = "Ready" /\ prof'.op \in {"set_tag", "set_version"}
           /\ prof'.ops = prof.ops + 1 /\ prof'.error = NoError) =>
             (prof'.state = "Ready" /\ prof'.dirty)
      ]_vars

\* C14 witness: a profile whose third decode step failed on a truncated
\* record, still TagTableParsed with its entries.
C14_Witness ==
    /\ prof.state = "TagTableParsed"
    /\ prof.error # NoError
    /\ prof.error.step = "tag_data"
    /\ prof.error.kind = "TruncatedRecord"
    /\ Len(prof.entries) = MaxTags

\* A second C14 case reached: a Ready profile changed by set_tag.
C14_WitnessDirty ==
    /\ prof.state = "Ready"
    /\ prof.op = "set_tag"
    /\ prof.error = NoError
    /\ prof.dirty

\* C15: once a header field or a tag of the profile has changed, the
\* profile_id of every output of encode is the checksum of that output.
C15_ProfileIdNeverStale ==
    (prof.op = "encode" /\ prof.changed) =>
        /\ prof.out[IdAt] = profile_id(prof.out)
        /\ prof.out[SizeAt] = Len(prof.out)
        /\ ~prof.dirty

\* C15 witness: encode, a change, and encode again, with a profile_id that
\* is not the one decode read.
C15_Witness ==
    /\ prof.op = "encode"
    /\ prof.changed
    /\ prof.ops >= 3
    /\ prof.out[IdAt] # prof.bytes[IdAt]

\* The tags of a profile hold each signature at most once.
UniqueSignatures(tags) ==
    \A i \in 1 .. Len(tags), j \in 1 .. Len(tags) : tags[i].sig = tags[j].sig => i = j

Declares(tags, signature) ==
    \E i \in 1 .. Len(tags) : tags[i].sig = signature

\* C16: a set_tag of a signature the profile declares fails with
\* DuplicateTag and leaves the tags as they were, and the tags of the
\* profile never hold a signature twice.
C16_DuplicateTagRejected ==
    [][/\ (prof'.op = "set_tag" /\ prof'.ops = prof.ops + 1
           /\ Declares(prof.tags, prof'.arg)) =>
             /\ prof'.error # NoError
             /\ prof'.error.kind = "DuplicateTag"
             /\ prof'.tags = prof.tags
             /\ prof'.state = prof.state
       /\ UniqueSignatures(prof'.tags)
      ]_vars

\* C16 witness: set_tag was refused with DuplicateTag on a profile of two
\* tags.
C16_Witness ==
    /\ prof.op = "set_tag"
    /\ prof.error # NoError
    /\ prof.error.kind = "DuplicateTag"
    /\ Len(prof.tags) = 2

\* C17: a counted record decoded from cells that hold fewer elements than
\* the declared count fails with TruncatedRecord, the record type and the
\* offset where the cells end; a record that is returned holds exactly the
\* declared count of elements, all read from the cells.
C17_TruncatedRecord ==
    /\ codec.op = "decode" =>
          LET declared == codec.bytes[3]
              held == Len(codec.bytes) - 3
          IN  /\ declared > held =>
                    codec.out = Err(Error("TruncatedRecord", "tag_data", codec.type,
                                          codec.base + Len(codec.bytes)))
              /\ codec.out.ok =>
                    /\ declared <= held
                    /\ codec.out.val.count = declared
                    /\ codec.out.val.seq = SubSeq(codec.bytes, 4, 3 + declared)
    /\ (prof.error # NoError /\ prof.error.kind = "TruncatedRecord"
        /\ prof.error.step = "tag_data") =>
          /\ prof.state = "TagTableParsed"
          /\ prof.tags = <<>>
          /\ prof.error.offset <= Len(prof.bytes)
    /\ \A i \in 1 .. Len(prof.tags) :
          prof.tags[i].rec.type # "Text" =>
              prof.tags[i].rec.count = Len(prof.tags[i].rec.seq)

\* C17 witness: a ColorantOrder that declares MaxCount elements was decoded
\* from cells that hold MaxLen of them, at an offset inside a container.
C17_Witness ==
    /\ codec.op = "decode"
    /\ codec.type = "ColorantOrder"
    /\ codec.bytes[3] = MaxCount
    /\ Len(codec.bytes) = 3 + MaxLen
    /\ codec.base > 0
    /\ ~codec.out.ok

\* C18: decode of a buffer whose profile_size is not its length fails with
\* SizeMismatch, in the state Empty; a profile that left Empty came from a
\* buffer whose profile_size is its length.
C18_SizeMismatch ==
    /\ (prof.op # "new" /\ Len(prof.bytes) >= HeaderLen
        /\ prof.bytes[SizeAt] # Len(prof.bytes)) =>
          /\ prof.state = "Empty"
          /\ prof.error # NoError
          /\ prof.error.kind = "SizeMismatch"
    /\ prof.state # "Empty" =>
          /\ Len(prof.bytes) >= HeaderLen
          /\ prof.bytes[SizeAt] = Len(prof.bytes)

\* C18 witness: a well-formed profile of two tags with one more cell at the
\* end was refused.
C18_Witness ==
    /\ prof.op = "decode"
    /\ prof.state = "Empty"
    /\ prof.error # NoError
    /\ prof.error.kind = "SizeMismatch"
    /\ Len(prof.bytes) > HeaderLen + 1
    /\ prof.bytes[SizeAt] = Len(prof.bytes) - 1
    /\ prof.bytes[HeaderLen + 1] = 2

\* A record whose count field is the length of its sequence.
StructurallyValid(r) ==
    r.type # "Text" => r.count = Len(r.seq)

\* The serialized profile of one Text tag with the payload abc.
AbcProfile ==
    LET tags == << [sig |-> TagRows[1].sig, rec |-> TextRecord(0, <<97, 98, 99>>)] >>
    IN  Serialize(4, profile_id(Serialize(4, 0, tags)), tags)

C19_WitnessRecord ==
    /\ codec.op = "round_trip"
    /\ codec.r.type = "ProfileSequenceIdentifier"
    /\ codec.r.reserved_1 = 1
    /\ codec.r.count = MaxLen
    /\ Len(codec.r.seq) = MaxLen
    /\ codec.out = Ok(codec.r)

\* A cone cell condition that is anomalous or missing.
Deficient(cond) == cond \in {"Anomalous", "Missing"}

CellsIn(s, cond) ==
    Cardinality({c \in {"l", "m", "s"} : s[c] = cond})

\* C21: is_anomalous_trichromacy(v) holds exactly when the summary of v has
\* one anomalous cone cell and two normal ones, and is_dichromacy(v) exactly
\* when it has one missing cone cell and two normal ones.
C21_TrichromacyDichromacyBySummary ==
    cv.op = "predicates" =>
        /\ cv.is_anomalous_trichromacy <=>
              (CellsIn(cv.summary, "Anomalous") = 1 /\ CellsIn(cv.summary, "Normal") = 2)
        /\ cv.is_dichromacy <=>
              (CellsIn(cv.summary, "Missing") = 1 /\ CellsIn(cv.summary, "Normal") = 2)

\* C21 witness: the predicates were applied to Tritanopia, a dichromacy
\* whose missing cone cell is the short one.
C21_Witness ==
    /\ cv.op = "predicates"
    /\ cv.input = "Tritanopia"
    /\ cv.is_dichromacy
    /\ ~cv.is_anomalous_trichromacy
    /\ cv.summary.s = "Missing"

\* The number of the listed predicate results that are true.
CountTrue(results) ==
    Cardinality({i \in 1 .. Len(results) : results[i]})

\* C25: a variant other than Normal satisfies exactly one of
\* is_anomalous_trichromacy, is_dichromacy and is_monochromacy; Normal
\* satisfies none of them; no variant satisfies more than one of is_protan,
\* is_deutan, is_tritan and is_monochromacy.
C25_PredicatesPartitionKinds ==
    cv.op = "predicates" =>
        /\ cv.input # "Normal" =>
              CountTrue(<<cv.is_anomalous_trichromacy, cv.is_dichromacy,
                          cv.is_monochromacy>>) = 1
        /\ cv.input = "Normal" =>
              CountTrue(<<cv.is_anomalous_trichromacy, cv.is_dichromacy,
                          cv.is_monochromacy>>) = 0
        /\ CountTrue(<<cv.is_protan, cv.is_deutan, cv.is_tritan,
                       cv.is_monochromacy>>) <= 1

\* C25 witness: the predicates were applied to Achromatomaly, which is a
\* monochromacy and nothing else.
C25_Witness ==
    /\ cv.op = "predicates"
    /\ cv.input = "Achromatomaly"
    /\ cv.is_monochromacy
    /\ ~cv.is_dichromacy
    /\ ~cv.is_anomalous_trichromacy
    /\ ~cv.is_deutan

\* The field that an index addresses, as C24 names them.
AddressedCell(op, index) ==
    IF op = "index_mut_usize"
    THEN CASE index = 0 -> "l" [] index = 1 -> "m" [] index = 2 -> "s" [] OTHER -> "none"
    ELSE CASE index \in {"l", "L", "r", "R"} -> "l"
           [] index \in {"m", "M", "g", "G"} -> "m"
           [] index \in {"s", "S", "b", "B"} -> "s"
           [] OTHER -> "none"

\* C24: an assignment s[i] = x for i in 0, 1, 2 or s[c] = x for an accepted
\* letter c sets the addressed cone cell to x and leaves the other two as
\* they were; after any run of assignments each cone cell holds the value
\* last assigned to it, or its initial value when none was.
C24_IndexMutFrame ==
    [][(cv'.op \in {"index_mut_usize", "index_mut_char"}
        /\ AddressedCell(cv'.op, cv'.input) # "none") =>
          LET cell == AddressedCell(cv'.op, cv'.input)
          IN  /\ ~cv'.panics
              /\ summary'[cell] = cv'.value
              /\ \A other \in {"l", "m", "s"} \ {cell} : summary'[other] = summary[other]
              /\ \A c \in {"l", "m", "s"} :
                    summary'[c] = IF cv'.last[c] = "none" THEN cv'.initial[c]
                                  ELSE cv'.last[c]
      ]_vars

\* C24 witness: after assignments by number and by letter, the long cone
\* cell holds the value assigned to it, the medium one the value assigned
\* to it, and the short one its initial value, all three different.
C24_Witness ==
    /\ cv.op = "index_mut_char"
    /\ ~cv.panics
    /\ cv.input = "G"
    /\ cv.last = [l |-> "Missing", m |-> "Anomalous", s |-> "none"]
    /\ cv.initial = ConeCellSummary_new("Anomalous", "Missing", "Normal")
    /\ summary = ConeCellSummary_new("Missing", "Anomalous", "Normal")

\* The element byte widths that C22 names.
ElementWidth(a) ==
    CASE a \in {"S15Fixed16Array", "U16Fixed16Array", "U32Array"} -> 4
      [] a = "U16Array" -> 2
      [] a = "U64Array" -> 8
      [] a = "U8Array" -> 1

\* C22: bytes() of an array is 8 plus the number of values times the
\* element byte width (4, 4, 4, 2, 8, 1 for the six types), and 8 for a
\* default array.
C22_BytesByElementWidth ==
    arrcall.op = "bytes" =>
        /\ arrcall.out = 8 + Len(arrcall.self.values) * ElementWidth(arrcall.self.a)
        /\ arrcall.self = impl_array_default(arrcall.self.a) => arrcall.out = 8

\* C22, the part that holds: with no values bytes() is 8.
C22_EmptyBytes ==
    (arrcall.op = "bytes" /\ arrcall.self.values = <<>>) => arrcall.out = 8

\* C22: U8Array::new(vec![1]).bytes() in a 64-bit build is 32, not 9.
C22_Witness ==
    /\ arrcall.op = "bytes"
    /\ arrcall.self = impl_array_new("U8Array", <<1>>)
    /\ arrcall.target = 8
    /\ arrcall.out = 32

\* C23: Vec::from(Array::from(xs)) is xs, Array::from(xs) equals
\* Array::new(xs), and two arrays made from the same sequence are equal.
C23_ArrayVecRoundTrip ==
    arrcall.op = "round_trip" =>
        /\ arrcall.out = arrcall.input
        /\ arrcall.eq_new
        /\ arrcall.eq_from

C23_Witness ==
    /\ arrcall.op = "round_trip"
    /\ arrcall.a = "U64Array"
    /\ arrcall.input = <<2, 0, 1>>
    /\ arrcall.out = <<2, 0, 1>>
    /\ arrcall.eq_new

=============================================================================
